---- MODULE Spec2Model ----
(***************************************************************************)
(* csvtk join (cmd/join.go): the Run function of joinCmd as a state        *)
(* machine.  One invocation reads the parsed files in join order, seeds    *)
(* the running result Data from the first file that has data rows, merges  *)
(* every later file into it by composite key, and writes header and rows.  *)
(*                                                                         *)
(* Text is modelled as a sequence of one-character strings, so that        *)
(* strings.Join, strings.Split, strings.ToLower and fmt.Sprintf are        *)
(* computed and not assumed.                                               *)
(***************************************************************************)
EXTENDS Integers, Sequences, FiniteSets, TLC

VARIABLES
    cfg,                \* the flags read at join.go:70-89
    files,              \* what parseCSVfile returns for each file, in join order
    pc,                 \* position in Run: "keyspace", "files", "emit", "done"
    i,                  \* index of the file the current loop is at (1-based)
    keys,               \* map[string]bool of the outer join (join.go:144)
    HeaderRow, prefixedHeaderRow, suffixedHeaderRow,
    Data, Fields, firstFile, withHeaderRow, mColnames,
    outHeader,          \* the header record handed to the writer, <<>> if none
    outRows,            \* the data records handed to the writer
    written,            \* TRUE once the writer was used
    origin,             \* history: for each row of Data, the index of the seed row it derives from
    from,               \* history: for each row of Data, the index of the row of the previous Data it derives from
    seedFile,           \* history: index of the file that became the seed, 0 before
    nSeedRows,          \* history: number of data rows of the seed file, 0 before
    merged              \* history: indices of the files merged so far, in order

vars == <<cfg, files, pc, i, keys, HeaderRow, prefixedHeaderRow, suffixedHeaderRow,
          Data, Fields, firstFile, withHeaderRow, mColnames, outHeader, outRows,
          written, origin, from, seedFile, nSeedRows, merged>>

-----------------------------------------------------------------------------
(* Bounds of the model *)

\* most data rows in one file
MaxRows == 2

-----------------------------------------------------------------------------
(* Text *)

Range(s) == {s[k] : k \in DOMAIN s}

UpperChars == <<"A", "B", "C", "X", "Y">>
LowerChars == <<"a", "b", "c", "x", "y">>

\* strings.ToLower on one character
LowerChar(c) ==
    IF \E k \in DOMAIN UpperChars : UpperChars[k] = c
    THEN LowerChars[CHOOSE k \in DOMAIN UpperChars : UpperChars[k] = c]
    ELSE c

\* strings.ToLower
ToLower(s) == [k \in DOMAIN s |-> LowerChar(s[k])]

\* the separator of the composite key
Sep == <<"_", "s", "h", "e", "n", "w", "e", "i", "3", "5", "6", "_">>

RECURSIVE Join(_, _)
\* strings.Join(items, sep)
Join(items, sep) ==
    IF items = <<>> THEN <<>>
    ELSE IF Len(items) = 1 THEN items[1]
    ELSE items[1] \o sep \o Join(Tail(items), sep)

\* s has sep at position k
HasAt(s, sep, k) ==
    /\ k + Len(sep) - 1 <= Len(s)
    /\ \A j \in 1..Len(sep) : s[k + j - 1] = sep[j]

RECURSIVE Split(_, _)
\* strings.Split(s, sep) for a non-empty sep
Split(s, sep) ==
    IF \E k \in 1..Len(s) : HasAt(s, sep, k)
    THEN LET k == CHOOSE k \in 1..Len(s) :
                     HasAt(s, sep, k) /\ \A j \in 1..(k - 1) : ~HasAt(s, sep, j)
         IN  <<SubSeq(s, 1, k - 1)>> \o Split(SubSeq(s, k + Len(sep), Len(s)), sep)
    ELSE <<s>>

Digits == <<"0", "1", "2", "3", "4", "5", "6", "7", "8", "9">>

RECURSIVE Itoa(_)
\* the %d verb of fmt.Sprintf for n >= 0
Itoa(n) == IF n < 10 THEN <<Digits[n + 1]>> ELSE Itoa(n \div 10) \o <<Digits[(n % 10) + 1]>>

\* fmt.Sprintf("key%d", n)
KeyName(n) == <<"k", "e", "y">> \o Itoa(n)

\* fmt.Sprintf("c%d", n)
ColName(n) == <<"c">> \o Itoa(n)

\* fmt.Sprintf("%s-%s", a, b)
Dash(a, b) == a \o <<"-">> \o b

RECURSIVE LastDot(_, _)
LastDot(s, k) == IF k = 0 THEN 0 ELSE IF s[k] = "." THEN k ELSE LastDot(s, k - 1)

\* filepathTrimExtension2(fbase, nil): the base name without its extension
TrimExtension(fbase) ==
    LET d == LastDot(fbase, Len(fbase))
    IN  IF d > 1 THEN SubSeq(fbase, 1, d - 1) ELSE fbase

-----------------------------------------------------------------------------
(* Keys *)

\* the set of key positions: fieldsMap (join.go:377-380), fieldsMap1 (join.go:208-211)
FieldsMap(fields) == Range(fields)

\* items[i] = record[f-1]; key = strings.Join(items, "_shenwei356_")
JoinedKey(record, fields) ==
    Join([k \in DOMAIN fields |-> record[fields[k]]], Sep)

\* if ignoreNull && key == "" { continue }
SkipKey(key) == cfg.ignoreNull /\ key = <<>>

\* if ignoreCase { key = strings.ToLower(key) }
FoldKey(key) == IF cfg.ignoreCase THEN ToLower(key) ELSE key

\* keepUnmatched after join.go:95-105
KeepUnmatched == cfg.keepUnmatched \/ cfg.outerJoin \/ cfg.leftJoin

\* m[k] = v on a map held as a function
Put(m, k, v) == [x \in DOMAIN m \cup {k} |-> IF x = k THEN v ELSE m[x]]

EmptyMap == [x \in {} |-> TRUE]

-----------------------------------------------------------------------------
(* Keyspace pass of the outer join (join.go:144-180) *)

RECURSIVE KeyspaceRows(_, _, _)
\* for _, record := range data: record every new key with the flag false
KeyspaceRows(data, fields, m) ==
    IF data = <<>> THEN m
    ELSE LET key == JoinedKey(Head(data), fields)
         IN  IF SkipKey(key) THEN KeyspaceRows(Tail(data), fields, m)
             ELSE IF FoldKey(key) \in DOMAIN m THEN KeyspaceRows(Tail(data), fields, m)
             ELSE KeyspaceRows(Tail(data), fields, Put(m, FoldKey(key), FALSE))

-----------------------------------------------------------------------------
(* Seeding (join.go:205-374) *)

\* addSuffix := len(suffixes) > 0
AddSuffix == Len(cfg.suffixes) > 0

\* which naming header is built: prefixedHeaderRow, suffixedHeaderRow or neither
NamingKind ==
    IF cfg.filenameAsPrefix THEN "prefix" ELSE IF AddSuffix THEN "suffix" ELSE "none"

\* fbase := filepath.Base(file), trimmed of its extension under --prefix-trim-ext
Fbase(file) == IF cfg.trimeExtention THEN TrimExtension(file.name) ELSE file.name

\* the text a column name is tagged with: fbase, or suffixes[i]
Tag(k) == IF cfg.filenameAsPrefix THEN Fbase(files[k])
          ELSE IF AddSuffix THEN cfg.suffixes[k] ELSE <<>>

\* fmt.Sprintf("%s-%s", fbase, Colname), or fmt.Sprintf("%s-%s", Colname, suffixes[i])
Tagged(kind, tag, Colname) ==
    IF kind = "prefix" THEN Dash(tag, Colname) ELSE Dash(Colname, tag)

\* newColname of one non-key column, given the registry mColnames
NewColname(kind, tag, Colname, reg) ==
    IF cfg.onlyDuplicates
    THEN IF Colname \in reg THEN Tagged(kind, tag, Colname) ELSE Colname
    ELSE Tagged(kind, tag, Colname)

\* Register with the recording forgotten
Register_Forgets(Colname, reg) == reg

\* mColnames[Colname] = struct{}{} when the name was not there yet
Register(Colname, reg) == IF cfg.onlyDuplicates THEN reg \cup {Colname} ELSE reg

RECURSIVE SeedNames(_, _, _, _, _, _, _)
\* the loops over the seed's columns f..n that fill prefixedHeaderRow or
\* suffixedHeaderRow; st = [row, reg, iKey]
SeedNames(f, n, headerRow, fm, kind, tag, st) ==
    IF f > n THEN st
    ELSE IF f \in fm
    THEN SeedNames(f + 1, n, headerRow, fm, kind, tag,
            IF headerRow = <<>>
            THEN [st EXCEPT !.row = Append(@, KeyName(st.iKey)), !.iKey = @ + 1]
            ELSE [st EXCEPT !.row = Append(@, headerRow[f])])
    ELSE LET Colname == IF headerRow = <<>> THEN ColName(f) ELSE headerRow[f]
         IN  SeedNames(f + 1, n, headerRow, fm, kind, tag,
                [st EXCEPT !.row = Append(@, NewColname(kind, tag, Colname, st.reg)),
                           !.reg = Register(Colname, st.reg)])

\* the naming header and registry after seeding from file k
SeedHeader(k) ==
    LET file == files[k]
        n    == IF file.headerRow = <<>> THEN Len(file.data[1]) ELSE Len(file.headerRow)
    IN  SeedNames(1, n, file.headerRow, FieldsMap(file.fields), NamingKind, Tag(k),
                  [row |-> <<>>, reg |-> mColnames, iKey |-> 1])

RECURSIVE MarkRows(_, _, _)
\* keys[key] = true for every key of the seed (join.go:337-350)
MarkRows(data, fields, m) ==
    IF data = <<>> THEN m
    ELSE LET key == JoinedKey(Head(data), fields)
         IN  IF SkipKey(key) THEN MarkRows(Tail(data), fields, m)
             ELSE MarkRows(Tail(data), fields, Put(m, FoldKey(key), TRUE))

RECURSIVE SynthFields(_, _, _, _, _, _)
\* for i = range record: key columns from items2 in column order, na elsewhere
SynthFields(c, nCols, items2, j, fm, acc) ==
    IF c > nCols THEN acc
    ELSE IF c \in fm
    THEN SynthFields(c + 1, nCols, items2, j + 1, fm, Append(acc, items2[j + 1]))
    ELSE SynthFields(c + 1, nCols, items2, j, fm, Append(acc, cfg.na))

\* the record appended to the seed for a key no row of the first table has
SynthRecord(key, nCols, fm) == SynthFields(1, nCols, Split(key, Sep), 0, fm, <<>>)

\* the orders in which "for key, ok = range keys" may visit the keys of S
Orders(S) == {s \in [1..Cardinality(S) -> S] : Range(s) = S}

-----------------------------------------------------------------------------
(* Merging one more file (join.go:376-530) *)

RECURSIVE IndexRows_Prepends(_, _, _)
\* IndexRows with the rows of one key kept in reverse order
IndexRows_Prepends(data, fields, m) ==
    IF data = <<>> THEN m
    ELSE LET key == JoinedKey(Head(data), fields)
         IN  IF SkipKey(key) THEN IndexRows_Prepends(Tail(data), fields, m)
             ELSE IndexRows_Prepends(Tail(data), fields,
                     Put(m, FoldKey(key),
                         <<Head(data)>> \o
                         (IF FoldKey(key) \in DOMAIN m THEN m[FoldKey(key)] ELSE <<>>)))

RECURSIVE IndexRows(_, _, _)
\* csv to map: keysMaps[key] = append(keysMaps[key], record)
IndexRows(data, fields, m) ==
    IF data = <<>> THEN m
    ELSE LET key == JoinedKey(Head(data), fields)
         IN  IF SkipKey(key) THEN IndexRows(Tail(data), fields, m)
             ELSE IndexRows(Tail(data), fields,
                     Put(m, FoldKey(key),
                         Append(IF FoldKey(key) \in DOMAIN m THEN m[FoldKey(key)] ELSE <<>>,
                                Head(data))))

RECURSIVE MergeNames_AddsKeyColumns(_, _, _, _, _, _, _)
\* MergeNames without the test that leaves the key columns out
MergeNames_AddsKeyColumns(f, n, headerRow, fm, kind, tag, st) ==
    IF f > n THEN st
    ELSE LET colname == IF withHeaderRow THEN headerRow[f] ELSE ColName(f)
         IN  MergeNames_AddsKeyColumns(f + 1, n, headerRow, fm, kind, tag,
                [hdr |-> IF withHeaderRow THEN Append(st.hdr, colname) ELSE st.hdr,
                 row |-> IF kind = "none" THEN st.row
                         ELSE Append(st.row, NewColname(kind, tag, colname, st.reg)),
                 reg |-> IF kind = "none" THEN st.reg ELSE Register(colname, st.reg)])

RECURSIVE MergeNames(_, _, _, _, _, _, _)
\* the loops over the new file's columns f..n that extend HeaderRow and the
\* naming header; base names come from the header, or are c<f> without one;
\* st = [hdr, row, reg]
MergeNames(f, n, headerRow, fm, kind, tag, st) ==
    IF f > n THEN st
    ELSE IF f \in fm THEN MergeNames(f + 1, n, headerRow, fm, kind, tag, st)
    ELSE LET colname == IF withHeaderRow THEN headerRow[f] ELSE ColName(f)
         IN  MergeNames(f + 1, n, headerRow, fm, kind, tag,
                [hdr |-> IF withHeaderRow THEN Append(st.hdr, colname) ELSE st.hdr,
                 row |-> IF kind = "none" THEN st.row
                         ELSE Append(st.row, NewColname(kind, tag, colname, st.reg)),
                 reg |-> IF kind = "none" THEN st.reg ELSE Register(colname, st.reg)])

\* HeaderRow, the naming header and the registry after merging file k
MergeHeader(k) ==
    LET file == files[k]
        n    == IF withHeaderRow THEN Len(file.headerRow)
                ELSE IF NamingKind # "none" /\ Len(Data) > 0 THEN Len(file.data[1])
                ELSE 0
        row  == IF cfg.filenameAsPrefix THEN prefixedHeaderRow ELSE suffixedHeaderRow
    IN  MergeNames(1, n, file.headerRow, FieldsMap(file.fields), NamingKind, Tag(k),
                   [hdr |-> HeaderRow, row |-> row, reg |-> mColnames])

RECURSIVE NonKeyFields(_, _, _)
\* the fields of record2 from position f on that are not key fields
NonKeyFields(record2, f, fm) ==
    IF f > Len(record2) THEN <<>>
    ELSE IF f \in fm THEN NonKeyFields(record2, f + 1, fm)
    ELSE <<record2[f]>> \o NonKeyFields(record2, f + 1, fm)

\* Combined with the key fields of record2 kept
Combined_KeepsKeyFields(record0, record2, fm) == record0 \o record2

\* a copy of record0 followed by the non-key fields of record2 (join.go:510-516)
Combined(record0, record2, fm) == record0 \o NonKeyFields(record2, 1, fm)

\* Padded without the placeholders
Padded_NoPlaceholders(record0, n) == record0

\* a copy of record0 followed by n placeholders (join.go:521-525)
Padded(record0, n) == record0 \o [j \in 1..n |-> cfg.na]

RECURSIVE MergeRows(_, _, _, _, _)
\* for _, record0 := range Data: Data2 as records [record, from], from being
\* the index of record0 in Data
MergeRows(k, keysMaps, fm, data, acc) ==
    IF k > Len(Data) THEN acc
    ELSE LET record0 == Data[k]
             key     == JoinedKey(record0, Fields)
         IN  IF SkipKey(key) THEN MergeRows(k + 1, keysMaps, fm, data, acc)
             ELSE IF FoldKey(key) \in DOMAIN keysMaps
             THEN MergeRows(k + 1, keysMaps, fm, data,
                     acc \o [j \in DOMAIN keysMaps[FoldKey(key)] |->
                               [record |-> Combined(record0, keysMaps[FoldKey(key)][j], fm),
                                from |-> k]])
             ELSE IF KeepUnmatched
             THEN MergeRows(k + 1, keysMaps, fm, data,
                     Append(acc, [record |-> Padded(record0, Len(data[1]) - Cardinality(fm)),
                                  from |-> k]))
             ELSE MergeRows(k + 1, keysMaps, fm, data, acc)

\* Data2 of merging file k into Data
Data2(k) ==
    MergeRows(1, IndexRows(files[k].data, files[k].fields, EmptyMap),
              FieldsMap(files[k].fields), files[k].data, <<>>)

-----------------------------------------------------------------------------
(* The inputs: what the flags and parseCSVfile can deliver.  Rows of one    *)
(* file have one width, a header is as wide as the rows, either every file  *)
(* has a header or none has, every selector names distinct positions inside *)
(* the row, all selectors of a run have the same length, and no field holds *)
(* the separator.                                                           *)

FileNames == << <<"A", ".", "c">>, <<"B", ".", "c">>, <<"C", ".", "c">> >>
SuffixTexts == << <<"1">>, <<"2">>, <<"3">> >>
ValueChars == <<"p", "q", "r">>
NaText == <<"n", "a">>

\* a file without content: parseCSVfile returns xopen.ErrNoContent
NoContent(k) ==
    [name |-> FileNames[k], noContent |-> TRUE, fields |-> <<>>, headerRow |-> <<>>,
     data |-> <<>>]

\* the position of column c in the selector
SelectorIndex(fields, c) == CHOOSE j \in DOMAIN fields : fields[j] = c

\* the rows of file k at row r: a key of keyRows in the key fields, in selector
\* order, and a marker of the file and the row in the other fields
Rows(k, r, shape, keyRows) ==
    {[c \in 1..shape.w |->
        IF c \in Range(shape.fields) THEN key[SelectorIndex(shape.fields, c)]
        ELSE <<ValueChars[k]>> \o Itoa(r)] : key \in keyRows}

RECURSIVE Tables(_, _, _, _)
\* the tables of file k with exactly n rows
Tables(k, n, shape, keyRows) ==
    IF n = 0 THEN {<<>>}
    ELSE {Append(t, row) : t \in Tables(k, n - 1, shape, keyRows),
                           row \in Rows(k, n, shape, keyRows)}

\* the headers of a file of this shape: key columns from keyNames, others from names
Headers(shape, keyNames, names) ==
    {h \in [1..shape.w -> keyNames \cup names] :
        \A c \in 1..shape.w :
            IF c \in Range(shape.fields) THEN h[c] \in keyNames ELSE h[c] \in names}

Parsed(k, shape, headerRow, data) ==
    [name |-> FileNames[k], noContent |-> FALSE, fields |-> shape.fields,
     headerRow |-> headerRow, data |-> data]

\* the join modes: inner, --keep-unmatched, --left-join, --outer-join
Modes ==
    {[leftJoin |-> FALSE, keepUnmatched |-> FALSE, outerJoin |-> FALSE],
     [leftJoin |-> FALSE, keepUnmatched |-> TRUE, outerJoin |-> FALSE],
     [leftJoin |-> TRUE, keepUnmatched |-> FALSE, outerJoin |-> FALSE],
     [leftJoin |-> FALSE, keepUnmatched |-> FALSE, outerJoin |-> TRUE]}

Config(mode, ic, inl, prefix, trim, dup, suffixes, noOut) ==
    [leftJoin |-> mode.leftJoin, keepUnmatched |-> mode.keepUnmatched,
     outerJoin |-> mode.outerJoin, ignoreCase |-> ic, ignoreNull |-> inl,
     filenameAsPrefix |-> prefix, trimeExtention |-> trim, onlyDuplicates |-> dup,
     suffixes |-> suffixes, NoOutHeader |-> noOut, na |-> NaText]

\* the keys of the runs: of one field with a letter in both cases, of two
\* fields, and of one field
Keys1 == {<<<<>>>>, <<<<"a">>>>, <<<<"A">>>>}
Keys2 == {<<<<>>, <<>>>>, <<<<"a">>, <<>>>>, <<<<"a">>, <<"a">>>>}
KeysChain == {<<<<>>>>, <<<<"a">>>>}

\* plain naming, every join mode
DataConfigs(ics) ==
    {Config(mode, ic, inl, FALSE, FALSE, FALSE, <<>>, FALSE) :
        mode \in Modes, ic \in ics, inl \in BOOLEAN}

\* the header of the files whose column names do not matter
PlainHeader(shape) ==
    [c \in 1..shape.w |-> IF c \in Range(shape.fields) THEN <<"i", "d">> ELSE <<"v">>]

\* the files with a header and up to MaxRows data rows
DataFiles(k, shapes, keyRows) ==
    UNION {{Parsed(k, sh, PlainHeader(sh), d) :
                d \in UNION {Tables(k, n, sh, keyRows) : n \in 0..MaxRows}} : sh \in shapes}

\* the naming flags: none, --prefix-filename, --suffix, with their modifiers
Namings ==
    {[prefix |-> FALSE, trim |-> FALSE, dup |-> FALSE, suffixes |-> <<>>]}
    \cup {[prefix |-> TRUE, trim |-> t, dup |-> d, suffixes |-> <<>>] :
            t \in BOOLEAN, d \in BOOLEAN}
    \cup {[prefix |-> FALSE, trim |-> FALSE, dup |-> d, suffixes |-> SuffixTexts] :
            d \in BOOLEAN}

\* inner and outer join under every naming; the header is suppressed in inner joins only
NamingConfigs ==
    {Config(mode, FALSE, FALSE, n.prefix, n.trim, n.dup, n.suffixes, noOut) :
        mode \in {m \in Modes : ~m.leftJoin /\ ~m.keepUnmatched /\ ~m.outerJoin},
        n \in Namings, noOut \in BOOLEAN}
    \cup
    {Config(mode, FALSE, FALSE, n.prefix, n.trim, n.dup, n.suffixes, FALSE) :
        mode \in {m \in Modes : m.outerJoin}, n \in Namings}

\* the files of the runs about column names: one data row with the key "a" in
\* every key field, or a header alone, or no content
NamedFiles(k, shapes, withHeader) ==
    {NoContent(k)}
    \cup (IF withHeader
          THEN LET sh == CHOOSE x \in shapes : TRUE
               IN  {Parsed(k, sh, PlainHeader(sh), <<>>)}
          ELSE {})
    \cup UNION {{Parsed(k, sh, h, d) :
                    h \in IF withHeader
                          THEN Headers(sh, IF k = 1 THEN {<<"i", "d">>, <<"x">>} ELSE {<<"i", "d">>},
                                       {<<"x">>, <<"y">>})
                          ELSE {<<>>},
                    d \in Tables(k, 1, sh, {[j \in DOMAIN sh.fields |-> <<"a">>]})} : sh \in shapes}

-----------------------------------------------------------------------------
(* The state machine *)

\* the state at join.go:144, before the first file is read
Start(run) ==
    /\ files = run.files
    /\ cfg = run.cfg
    /\ pc = IF run.cfg.outerJoin THEN "keyspace" ELSE "files"
    /\ i = 1
    /\ keys = EmptyMap
    /\ HeaderRow = <<>>
    /\ prefixedHeaderRow = <<>>
    /\ suffixedHeaderRow = <<>>
    /\ Data = <<>>
    /\ Fields = <<>>
    /\ firstFile = TRUE
    /\ withHeaderRow = FALSE
    /\ mColnames = {}
    /\ outHeader = <<>>
    /\ outRows = <<>>
    /\ written = FALSE
    /\ origin = <<>>
    /\ from = <<>>
    /\ seedFile = 0
    /\ nSeedRows = 0
    /\ merged = <<>>

\* two files, every join mode, keys of one field: "", "a" and "A"
InitPair1 ==
    \E a \in DataFiles(1, {[w |-> 2, fields |-> <<1>>]}, Keys1),
       b \in DataFiles(2, {[w |-> 2, fields |-> <<2>>]}, Keys1),
       c \in DataConfigs(BOOLEAN) :
        Start([files |-> <<a, b>>, cfg |-> c])

\* two files, every join mode, keys of two fields (no letter to fold, so
\* ignore-case is off), the first selector ascending or descending
InitPair2 ==
    \E a \in DataFiles(1, {[w |-> 3, fields |-> <<1, 2>>], [w |-> 3, fields |-> <<2, 1>>]},
                       Keys2),
       b \in DataFiles(2, {[w |-> 3, fields |-> <<1, 3>>]}, Keys2),
       c \in DataConfigs({FALSE}) :
        Start([files |-> <<a, b>>, cfg |-> c])

\* three files, each possibly without content, keys of one field: "" and "a"
InitChain ==
    \E a \in DataFiles(1, {[w |-> 2, fields |-> <<1>>]}, KeysChain) \cup {NoContent(1)},
       b \in DataFiles(2, {[w |-> 2, fields |-> <<2>>]}, KeysChain) \cup {NoContent(2)},
       c \in DataFiles(3, {[w |-> 2, fields |-> <<1>>]}, KeysChain) \cup {NoContent(3)},
       g \in {x \in DataConfigs({FALSE}) : ~x.keepUnmatched} :
        Start([files |-> <<a, b, c>>, cfg |-> g])

\* three files with headers, every naming
InitHeader ==
    \E a \in NamedFiles(1, {[w |-> 2, fields |-> <<1>>], [w |-> 3, fields |-> <<2>>]}, TRUE),
       b \in NamedFiles(2, {[w |-> 2, fields |-> <<1>>], [w |-> 3, fields |-> <<2>>]}, TRUE),
       c \in NamedFiles(3, {[w |-> 2, fields |-> <<2>>]}, TRUE),
       g \in NamingConfigs :
        Start([files |-> <<a, b, c>>, cfg |-> g])

\* three files without header, every naming, keys of one field and of two
InitNoHeader ==
    \/ \E a \in NamedFiles(1, {[w |-> 2, fields |-> <<1>>], [w |-> 3, fields |-> <<2>>]}, FALSE),
          b \in NamedFiles(2, {[w |-> 2, fields |-> <<1>>], [w |-> 3, fields |-> <<2>>]}, FALSE),
          c \in NamedFiles(3, {[w |-> 2, fields |-> <<2>>]}, FALSE),
          g \in NamingConfigs :
            Start([files |-> <<a, b, c>>, cfg |-> g])
    \/ \E a \in NamedFiles(1, {[w |-> 3, fields |-> <<1, 2>>], [w |-> 3, fields |-> <<2, 1>>]}, FALSE),
          b \in NamedFiles(2, {[w |-> 3, fields |-> <<1, 2>>], [w |-> 3, fields |-> <<3, 1>>]}, FALSE),
          c \in NamedFiles(3, {[w |-> 3, fields |-> <<1, 2>>]}, FALSE),
          g \in NamingConfigs :
            Start([files |-> <<a, b, c>>, cfg |-> g])

\* two files, every join mode, the second with three columns besides its key
InitWide ==
    \E a \in DataFiles(1, {[w |-> 2, fields |-> <<1>>]}, KeysChain),
       b \in DataFiles(2, {[w |-> 4, fields |-> <<3>>]}, KeysChain),
       c \in DataConfigs({FALSE}) :
        Start([files |-> <<a, b>>, cfg |-> c])

Init == InitPair1 \/ InitPair2 \/ InitChain \/ InitWide \/ InitHeader \/ InitNoHeader

\* the end of one iteration of "for i, file := range files" (join.go:185)
NextFile ==
    /\ i' = i + 1
    /\ pc' = IF i = Len(files) THEN "emit" ELSE "files"

\* one iteration of the keyspace loop (join.go:147-179)
KeyspaceFile ==
    /\ pc = "keyspace"
    /\ keys' = IF files[i].noContent THEN keys
               ELSE KeyspaceRows(files[i].data, files[i].fields, keys)
    /\ IF i = Len(files) THEN pc' = "files" /\ i' = 1 ELSE pc' = pc /\ i' = i + 1
    /\ UNCHANGED <<cfg, files, HeaderRow, prefixedHeaderRow, suffixedHeaderRow, Data,
                   Fields, firstFile, withHeaderRow, mColnames, outHeader, outRows,
                   written, origin, from, seedFile, nSeedRows, merged>>

\* SkipEmptyFile with the skipped file taken for the seed
SkipEmptyFile_Seeds ==
    /\ pc = "files"
    /\ files[i].noContent
    /\ NextFile
    /\ firstFile' = FALSE
    /\ UNCHANGED <<cfg, files, keys, HeaderRow, prefixedHeaderRow, suffixedHeaderRow,
                   Data, Fields, withHeaderRow, mColnames, outHeader, outRows,
                   written, origin, from, seedFile, nSeedRows, merged>>

\* err == xopen.ErrNoContent: continue (join.go:189-197)
SkipEmptyFile ==
    /\ pc = "files"
    /\ files[i].noContent
    /\ NextFile
    /\ UNCHANGED <<cfg, files, keys, HeaderRow, prefixedHeaderRow, suffixedHeaderRow,
                   Data, Fields, firstFile, withHeaderRow, mColnames, outHeader, outRows,
                   written, origin, from, seedFile, nSeedRows, merged>>

\* SkipNoData with the file merged as a table without rows
SkipNoData_MergesNoRows ==
    /\ pc = "files"
    /\ ~files[i].noContent
    /\ Len(files[i].data) = 0
    /\ NextFile
    /\ Data' = IF firstFile \/ KeepUnmatched THEN Data ELSE <<>>
    /\ origin' = IF firstFile \/ KeepUnmatched THEN origin ELSE <<>>
    /\ from' = IF firstFile \/ KeepUnmatched THEN from ELSE <<>>
    /\ UNCHANGED <<cfg, files, keys, HeaderRow, prefixedHeaderRow, suffixedHeaderRow,
                   Fields, firstFile, withHeaderRow, mColnames, outHeader, outRows,
                   written, seedFile, nSeedRows, merged>>

\* len(data) == 0: continue (join.go:199-204)
SkipNoData ==
    /\ pc = "files"
    /\ ~files[i].noContent
    /\ Len(files[i].data) = 0
    /\ NextFile
    /\ UNCHANGED <<cfg, files, keys, HeaderRow, prefixedHeaderRow, suffixedHeaderRow,
                   Data, Fields, firstFile, withHeaderRow, mColnames, outHeader, outRows,
                   written, origin, from, seedFile, nSeedRows, merged>>

\* if firstFile { ... continue } (join.go:205-374)
SeedFile ==
    /\ pc = "files"
    /\ ~files[i].noContent
    /\ Len(files[i].data) > 0
    /\ firstFile
    /\ LET file   == files[i]
           sh     == SeedHeader(i)
           marked == MarkRows(file.data, file.fields, keys)
           nCols  == Len(file.data[Len(file.data)])
       IN  /\ HeaderRow' = file.headerRow
           /\ Fields' = file.fields
           /\ prefixedHeaderRow' = IF cfg.filenameAsPrefix THEN sh.row ELSE prefixedHeaderRow
           /\ suffixedHeaderRow' = IF AddSuffix THEN sh.row ELSE suffixedHeaderRow
           /\ mColnames' = IF NamingKind = "none" THEN mColnames ELSE sh.reg
           /\ firstFile' = FALSE
           /\ withHeaderRow' = (Len(file.headerRow) > 0)
           /\ IF cfg.outerJoin
              THEN /\ keys' = marked
                   /\ \E order \in Orders({key \in DOMAIN marked : ~marked[key]}) :
                        Data' = file.data \o
                                [j \in DOMAIN order |->
                                    SynthRecord(order[j], nCols, FieldsMap(file.fields))]
              ELSE /\ keys' = keys
                   /\ Data' = file.data
           /\ origin' = [k \in DOMAIN Data' |-> k]
           /\ from' = [k \in DOMAIN Data' |-> k]
           /\ seedFile' = i
           /\ nSeedRows' = Len(file.data)
    /\ NextFile
    /\ UNCHANGED <<cfg, files, outHeader, outRows, written, merged>>

\* the rest of the loop body for a later file (join.go:376-530)
MergeFile ==
    /\ pc = "files"
    /\ ~files[i].noContent
    /\ Len(files[i].data) > 0
    /\ ~firstFile
    /\ LET mh == MergeHeader(i)
           d2 == Data2(i)
       IN  /\ HeaderRow' = mh.hdr
           /\ prefixedHeaderRow' = IF cfg.filenameAsPrefix THEN mh.row ELSE prefixedHeaderRow
           /\ suffixedHeaderRow' = IF ~cfg.filenameAsPrefix /\ AddSuffix THEN mh.row
                                   ELSE suffixedHeaderRow
           /\ mColnames' = mh.reg
           /\ Data' = [k \in DOMAIN d2 |-> d2[k].record]
           /\ from' = [k \in DOMAIN d2 |-> d2[k].from]
           /\ origin' = [k \in DOMAIN d2 |-> origin[d2[k].from]]
    /\ merged' = Append(merged, i)
    /\ NextFile
    /\ UNCHANGED <<cfg, files, keys, Fields, firstFile, withHeaderRow, outHeader, outRows,
                   written, seedFile, nSeedRows>>

\* the header the writer gets, as a sequence of at most one record (join.go:533-547)
WrittenHeader ==
    IF cfg.NoOutHeader THEN <<>>
    ELSE IF withHeaderRow
    THEN IF cfg.filenameAsPrefix THEN <<prefixedHeaderRow>>
         ELSE IF AddSuffix THEN <<suffixedHeaderRow>>
         ELSE <<HeaderRow>>
    ELSE IF cfg.filenameAsPrefix THEN <<prefixedHeaderRow>>
    ELSE IF AddSuffix THEN <<suffixedHeaderRow>>
    ELSE <<>>

\* writing the header and the records (join.go:533-550)
Emit ==
    /\ pc = "emit"
    /\ outHeader' = WrittenHeader
    /\ outRows' = Data
    /\ written' = TRUE
    /\ pc' = "done"
    /\ UNCHANGED <<cfg, files, i, keys, HeaderRow, prefixedHeaderRow, suffixedHeaderRow,
                   Data, Fields, firstFile, withHeaderRow, mColnames, origin, from,
                   seedFile, nSeedRows, merged>>

Next == KeyspaceFile \/ SkipEmptyFile \/ SkipNoData \/ SeedFile \/ MergeFile \/ Emit

Spec == Init /\ [][Next]_vars

-----------------------------------------------------------------------------
(* What the claims speak of, stated on the inputs and not by the loops above *)

\* the composite key of a row as the tuple of its key fields, in selector order
KeyTuple(record, fields) == [k \in DOMAIN fields |-> record[fields[k]]]

\* equality of two composite keys: exact, or case-folded under --ignore-case
SameKey(k1, k2) ==
    /\ Len(k1) = Len(k2)
    /\ \A j \in DOMAIN k1 : IF cfg.ignoreCase THEN ToLower(k1[j]) = ToLower(k2[j])
                                              ELSE k1[j] = k2[j]

\* every component of the key is empty
AllEmpty(key) == \A j \in DOMAIN key : key[j] = <<>>

\* the positions 1..w that are not in S, ascending
Ascending(S) ==
    CHOOSE s \in [1..Cardinality(S) -> S] : \A p, q \in 1..Cardinality(S) : p < q => s[p] < s[q]

\* the fields of a row of a later file that are not its key fields, in row order
Contributed(record, fields) ==
    LET cols == Ascending((1..Len(record)) \ Range(fields))
    IN  [j \in DOMAIN cols |-> record[cols[j]]]

\* n placeholders
Placeholders(n) == [j \in 1..n |-> cfg.na]

\* the first file that was merged into the seed, while it is the only one
A == files[seedFile]
B == files[merged[1]]
OneMerge == seedFile # 0 /\ Len(merged) = 1

\* the pairs of row indices of A and B that satisfy match
Pairs(match(_, _)) ==
    {p \in (DOMAIN A.data) \X (DOMAIN B.data) : match(A.data[p[1]], B.data[p[2]])}

\* Data holds one row a \o Contributed(b) for every pair of match, and nothing else
IsJoinOf(match(_, _)) ==
    /\ Len(Data) = Cardinality(Pairs(match))
    /\ \A p \in Pairs(match) :
        \E k \in DOMAIN Data :
            Data[k] = A.data[p[1]] \o Contributed(B.data[p[2]], B.fields)
    /\ \A k \in DOMAIN Data :
        \E p \in Pairs(match) :
            Data[k] = A.data[p[1]] \o Contributed(B.data[p[2]], B.fields)

EqualKeys(a, b) == SameKey(KeyTuple(a, A.fields), KeyTuple(b, B.fields))

\* with --ignore-null a row whose joined key is the empty text pairs with nothing;
\* the joined key is empty only for a key of one empty field
Matchable(a, b) ==
    /\ EqualKeys(a, b)
    /\ ~(cfg.ignoreNull /\ Len(A.fields) = 1 /\ AllEmpty(KeyTuple(a, A.fields)))

\* C1 as stated: after an inner join of A and B the result holds exactly one
\* row a \o (non-key fields of b) for every pair (a, b) of rows with equal
\* composite keys, and no other row.
C1_InnerJoinAllEqualKeys ==
    (OneMerge /\ ~KeepUnmatched) => IsJoinOf(EqualKeys)

\* C1 amended: after an inner join of A and B the result holds exactly one row
\* a \o (non-key fields of b) for every pair (a, b) of rows with equal
\* composite keys, and no other row, except that under --ignore-null a row
\* whose joined key is the empty text is paired with no row.
C1_InnerJoin ==
    (OneMerge /\ ~KeepUnmatched) => IsJoinOf(Matchable)

\* an inner join was written in which a key twice in A and twice in B gave four rows
C1_Witness ==
    /\ OneMerge /\ ~KeepUnmatched /\ pc = "done"
    /\ Len(A.data) = 2 /\ Len(B.data) = 2 /\ Len(outRows) = 4

\* the rows of Data that start with the fields of a
StartingWith(a) == {k \in DOMAIN Data : SubSeq(Data[k], 1, Len(a)) = a}

\* C2: after a left join (--left-join or --keep-unmatched) of A with B every
\* row of A leads at least one result row, and a row of A whose key equals the
\* key of no row of B leads exactly one, followed by the placeholder in each
\* column B contributes.
C2_LeftJoinKeepsEveryRow ==
    (OneMerge /\ (cfg.leftJoin \/ cfg.keepUnmatched)) =>
        \A r \in DOMAIN A.data :
            LET a == A.data[r]
            IN  /\ StartingWith(a) # {}
                /\ (\A q \in DOMAIN B.data : ~EqualKeys(a, B.data[q])) =>
                        \E k \in DOMAIN Data :
                            /\ StartingWith(a) = {k}
                            /\ Data[k] = a \o Placeholders(Len(B.data[1]) - Len(B.fields))

\* the step that merges one more file into the running result
MergeStep == merged' # merged

\* the file a merge step merges
Merging == files[i]

\* C4: under --ignore-null, in every merge step, a row of the running result
\* whose key fields are all empty is combined with no row of the new file,
\* and when unmatched rows are kept it is in the next result once, followed
\* by placeholders.
C4_NullKeysUnmatchedButKept ==
    [][(MergeStep /\ cfg.ignoreNull) =>
        \A r \in DOMAIN Data :
            AllEmpty(KeyTuple(Data[r], Fields)) =>
                LET derived == {k \in DOMAIN Data' : from'[k] = r}
                    padded  == Data[r] \o Placeholders(Len(Merging.data[1]) - Len(Merging.fields))
                IN  /\ \A k \in derived : Data'[k] = padded
                    /\ KeepUnmatched => Cardinality(derived) = 1]_vars

\* the composite keys in the key columns of the written rows, read at the first
\* table's key positions
ResultKeys == {KeyTuple(outRows[k], Fields) : k \in DOMAIN outRows}

\* the composite keys of all rows of all sources
SourceKeys ==
    UNION {{KeyTuple(files[f].data[r], files[f].fields) : r \in DOMAIN files[f].data} :
            f \in DOMAIN files}

\* C3: after an outer join the set of composite keys in the key columns of the
\* result equals the union of the composite keys of all rows of all sources
\* (keys compared as the join compares them: case-folded under --ignore-case):
\* no key of a source is missing and no key appears that was in no source.
C3_OuterJoinKeyCoverage ==
    (cfg.outerJoin /\ pc = "done") =>
        /\ \A key \in SourceKeys : \E got \in ResultKeys : SameKey(key, got)
        /\ \A got \in ResultKeys : \E key \in SourceKeys : SameKey(key, got)

\* the texts of the fields of all rows of all sources
InputTexts ==
    UNION {UNION {Range(files[f].data[r]) : r \in DOMAIN files[f].data} : f \in DOMAIN files}

\* C5: under --ignore-case rows whose keys differ only in letter case are
\* joined, and every written field, the key columns included, is the text of
\* an input field (or the placeholder), unchanged in case.
C5_OnlyComparisonFolded ==
    /\ (cfg.ignoreCase /\ OneMerge /\ ~cfg.ignoreNull) =>
            \A p \in Pairs(EqualKeys) :
                \E k \in DOMAIN Data :
                    Data[k] = A.data[p[1]] \o Contributed(B.data[p[2]], B.fields)
    /\ (cfg.ignoreCase /\ pc = "done") =>
            \A k \in DOMAIN outRows :
                /\ \A c \in DOMAIN outRows[k] : outRows[k][c] \in InputTexts \cup {cfg.na}
                /\ \A c \in Range(Fields) : outRows[k][c] \in InputTexts

\* the loop is at a later file that has no data rows
AtLaterFileWithoutRows ==
    pc = "files" /\ ~firstFile /\ ~files[i].noContent /\ Len(files[i].data) = 0

\* C6 as stated: merging a later file without data rows empties the result of
\* an inner join, and under left or outer join extends every row of the
\* running result by placeholders for the columns of that file.
C6_ZeroRowsMergedAsNoMatch ==
    [][AtLaterFileWithoutRows =>
        IF KeepUnmatched
        THEN Data' = [k \in DOMAIN Data |->
                        Data[k] \o Placeholders(Len(files[i].headerRow) - Len(files[i].fields))]
        ELSE Data' = <<>>]_vars

\* C6 amended: a later file without data rows is skipped: in every join mode
\* the running result, the headers and the name registry stay as they are (an
\* inner join keeps its rows, a left or outer join adds no placeholder column).
C6_ZeroRowsSkipped ==
    [][AtLaterFileWithoutRows =>
        /\ i' = i + 1
        /\ UNCHANGED <<Data, HeaderRow, prefixedHeaderRow, suffixedHeaderRow, mColnames,
                       merged>>]_vars

\* a later file with a header and no rows was passed and the result still has rows
C6_Witness ==
    /\ i > 1 /\ seedFile # 0 /\ seedFile < i - 1
    /\ ~files[i - 1].noContent /\ Len(files[i - 1].data) = 0
    /\ Len(files[i - 1].headerRow) > Len(files[i - 1].fields)
    /\ Len(Data) > 0 /\ ~KeepUnmatched

RECURSIVE SumContributed(_)
\* over the merged files: header length minus number of key fields
SumContributed(fs) ==
    IF fs = <<>> THEN 0
    ELSE Len(files[Head(fs)].headerRow) - Len(files[Head(fs)].fields)
         + SumContributed(Tail(fs))

\* the header length C7 states
HeaderArity == Len(A.headerRow) + SumContributed(merged)

\* C7: with headers, the header (plain, prefixed or suffixed) is as long as the
\* first table's header plus, per merged file, its header length minus its
\* number of key fields; the first table's key columns keep their names.
C7_HeaderArity ==
    (seedFile # 0 /\ withHeaderRow) =>
        /\ Len(HeaderRow) = HeaderArity
        /\ \A c \in Range(Fields) : HeaderRow[c] = A.headerRow[c]
        /\ cfg.filenameAsPrefix =>
                /\ Len(prefixedHeaderRow) = HeaderArity
                /\ \A c \in Range(Fields) : prefixedHeaderRow[c] = A.headerRow[c]
        /\ AddSuffix =>
                /\ Len(suffixedHeaderRow) = HeaderArity
                /\ \A c \in Range(Fields) : suffixedHeaderRow[c] = A.headerRow[c]
        /\ (pc = "done" /\ ~cfg.NoOutHeader) =>
                Len(outHeader) = 1 /\ Len(outHeader[1]) = HeaderArity

\* a header was written after two files with non-key columns were merged
C7_Witness ==
    /\ pc = "done" /\ withHeaderRow /\ Len(merged) = 2 /\ Len(outHeader) = 1
    /\ Len(outHeader[1]) > Len(A.headerRow) + 1

\* the step that seeds the running result
SeedStep == seedFile' # seedFile

\* the naming header in use
NamingHeader == IF cfg.filenameAsPrefix THEN prefixedHeaderRow ELSE suffixedHeaderRow

\* the non-key columns of the file the loop is at, ascending
OtherColumns ==
    Ascending((1..(IF files[i].headerRow = <<>> THEN Len(files[i].data[1])
                   ELSE Len(files[i].headerRow))) \ Range(files[i].fields))

\* their base names: from the header, or c<position> without one
BaseNames ==
    [j \in DOMAIN OtherColumns |->
        IF files[i].headerRow = <<>> THEN ColName(OtherColumns[j])
        ELSE files[i].headerRow[OtherColumns[j]]]

\* what a step writes for the j-th base name, given the registry before the step
NameUnderDuplicatesOnly(j) ==
    IF BaseNames[j] \in mColnames \/ \E q \in 1..(j - 1) : BaseNames[q] = BaseNames[j]
    THEN Tagged(NamingKind, Tag(i), BaseNames[j])
    ELSE BaseNames[j]

\* the names a step writes for the non-key columns of the file the loop is at
NamesAdded ==
    IF firstFile THEN [j \in DOMAIN OtherColumns |-> NamingHeader'[OtherColumns[j]]]
    ELSE SubSeq(NamingHeader', Len(NamingHeader) + 1, Len(NamingHeader'))

\* without headers the columns of a file merged into an empty running result
\* get no names (join.go:446, join.go:472)
NothingToName == MergeStep /\ ~withHeaderRow /\ Data = <<>>

C9_SyntheticNames ==
    (pc = "done" /\ seedFile # 0 /\ ~withHeaderRow /\ NamingKind # "none"
        /\ ~cfg.NoOutHeader) =>
        /\ Len(outHeader) = 1
        /\ \A j \in DOMAIN Fields : outHeader[1][Fields[j]] = KeyName(j)
        /\ \A c \in (DOMAIN A.data[1]) \ Range(Fields) :
                outHeader[1][c] \in {ColName(c), Tagged(NamingKind, Tag(seedFile), ColName(c))}

\* the row of the merged file that row k of the next result was combined with, 0 if none
Partner(k) ==
    IF \E r \in DOMAIN Merging.data :
            Data'[k] = Data[from'[k]] \o Contributed(Merging.data[r], Merging.fields)
    THEN CHOOSE r \in DOMAIN Merging.data :
            Data'[k] = Data[from'[k]] \o Contributed(Merging.data[r], Merging.fields)
    ELSE 0

\* C10: a merge step keeps the order of the running-result rows its rows derive
\* from, and the rows emitted for one running-result row follow the row order
\* of the new file; so the result always follows the order of the seed, whose
\* rows are the first file's rows followed, under outer join, by the rows
\* synthesized for the keys the first file lacks.
C10_RowOrder ==
    /\ [][MergeStep =>
            /\ \A k \in DOMAIN Data' : from'[k] \in DOMAIN Data
            /\ \A k \in DOMAIN Data' : SubSeq(Data'[k], 1, Len(Data[from'[k]])) = Data[from'[k]]
            /\ \A k, l \in DOMAIN Data' :
                k < l => /\ from'[k] <= from'[l]
                         /\ from'[k] = from'[l] => (0 < Partner(k) /\ Partner(k) < Partner(l))]_vars
    /\ [](seedFile # 0 =>
            /\ \A k, l \in DOMAIN Data : k < l => origin[k] <= origin[l]
            /\ \A k \in DOMAIN Data :
                IF origin[k] <= nSeedRows
                THEN SubSeq(Data[k], 1, Len(A.data[1])) = A.data[origin[k]]
                ELSE /\ cfg.outerJoin
                     /\ \A c \in (DOMAIN A.data[1]) \ Range(Fields) : Data[k][c] = cfg.na
                     /\ \A r \in DOMAIN A.data :
                            FoldKey(JoinedKey(A.data[r], Fields))
                                # FoldKey(JoinedKey(Data[k], Fields))
                     /\ \A l \in DOMAIN Data : origin[l] <= nSeedRows => l < k)

\* after two merges of an outer join: two rows for the first row of the first
\* file, in the order of the merged file, then a synthesized row
C10_Witness ==
    /\ pc = "done" /\ cfg.outerJoin /\ Len(merged) = 2
    /\ \E k \in DOMAIN Data : k + 2 <= Len(Data) /\ origin[k] = origin[k + 1]
                               /\ origin[k + 2] > nSeedRows

-----------------------------------------------------------------------------
(* The seed of an outer join *)

\* the seed is in place and no file was merged into it yet
Seeded == seedFile # 0 /\ merged = <<>>

\* the composite keys the keyspace pass collects: those of all source rows but
\* the ones --ignore-null passes over
CollectedKeys == {t \in SourceKeys : ~SkipKey(Join(t, Sep))}

\* some row of the first table has the key
Carried(t) == \E r \in DOMAIN A.data : SameKey(KeyTuple(A.data[r], Fields), t)

\* the collected keys no row of the first table has
MissingKeys == {t \in CollectedKeys : ~Carried(t)}

\* the positions of the synthetic rows in the seed
SynthRows == (nSeedRows + 1)..Len(Data)

\* C11: in the seed of an outer join every collected key that no row of the
\* first table has is the key of exactly one synthetic row, read from that row
\* at the first table's key positions in selector order (keys compared as the
\* join compares them); every synthetic row is as wide as the first table's
\* rows, holds the placeholder in every other column, and has such a key, so
\* none is added for a key the first table has.
C11_SyntheticRows ==
    (cfg.outerJoin /\ Seeded) =>
        /\ \A t \in MissingKeys :
              Cardinality({k \in SynthRows : SameKey(KeyTuple(Data[k], Fields), t)}) = 1
        /\ \A k \in SynthRows :
              /\ Len(Data[k]) = Len(A.data[1])
              /\ \A c \in (DOMAIN Data[k]) \ Range(Fields) : Data[k][c] = cfg.na
              /\ \E t \in MissingKeys : SameKey(KeyTuple(Data[k], Fields), t)

-----------------------------------------------------------------------------
(* The phases of one invocation *)

\* SEEDING (1), also while the keys are collected; MERGING (2); EMITTING (3)
Phase == IF pc \in {"emit", "done"} THEN 3 ELSE IF firstFile THEN 1 ELSE 2

\* file k yields at least one data row
HasRows(k) == ~files[k].noContent /\ Len(files[k].data) > 0

\* the files with data rows, in join order
RECURSIVE WithRows(_)
WithRows(k) ==
    IF k > Len(files) THEN <<>>
    ELSE IF HasRows(k) THEN <<k>> \o WithRows(k + 1) ELSE WithRows(k + 1)

\* the loop over the files is at file i
AtFile == pc = "files"

\* what holds of every step and of every state of a run, whether or not some
\* file yields a row
PhasesForward ==
    /\ [][/\ Phase' >= Phase
          /\ ~firstFile => ~firstFile'
          /\ seedFile # 0 => seedFile' = seedFile
          /\ (firstFile /\ ~firstFile') =>
                /\ AtFile /\ HasRows(i) /\ \A k \in 1..(i - 1) : ~HasRows(k)
                /\ seedFile' = i
                /\ SubSeq(Data', 1, Len(files[i].data)) = files[i].data
                /\ merged' = merged
          /\ (AtFile /\ firstFile /\ ~HasRows(i)) =>
                /\ firstFile'
                /\ i' = i + 1
                /\ UNCHANGED <<Data, HeaderRow, prefixedHeaderRow, suffixedHeaderRow,
                               mColnames, Fields, withHeaderRow, seedFile, merged>>
          /\ (AtFile /\ ~firstFile) =>
                merged' = IF HasRows(i) THEN Append(merged, i) ELSE merged
          /\ ~AtFile => merged' = merged
          /\ (written' # written \/ outRows' # outRows \/ outHeader' # outHeader) =>
                /\ i > Len(files) /\ Phase = 3
                /\ outRows' = Data /\ written']_vars
    /\ [](/\ ~written => outRows = <<>> /\ outHeader = <<>>
          /\ firstFile <=> seedFile = 0
          /\ pc = "done" =>
                IF WithRows(1) = <<>> THEN seedFile = 0 /\ merged = <<>> /\ outRows = <<>>
                ELSE <<seedFile>> \o merged = WithRows(1))

\* C12 as stated: in every invocation exactly one file becomes the seed, the
\* first file in join order with a data row; the phase moves only forward, the
\* files before the seed are skipped without leaving SEEDING and without
\* changing the running result, the headers or the name registry; the run never
\* seeds again, every later file with data rows causes exactly one merge step,
\* and rows are written only after the last file was processed.
C12_ExactlyOneSeed ==
    /\ PhasesForward
    /\ [](pc = "done" => seedFile # 0)

\* C12 amended: as stated, but at most one file becomes the seed, and exactly
\* one only when some file yields a data row: when no file does, the run goes
\* from SEEDING to EMITTING without a seed or a merge step and writes no row.
C12_AtMostOneSeed ==
    /\ PhasesForward
    /\ [](pc = "done" => (seedFile # 0 <=> \E k \in DOMAIN files : HasRows(k)))

\* a file was skipped before the seed, the next one seeded, a later one was
\* merged, and the rows were written
C12_Witness ==
    /\ pc = "done" /\ written /\ seedFile > 1 /\ Len(merged) > 0
    /\ \A k \in 1..(seedFile - 1) : ~HasRows(k)
    /\ Len(outRows) > 0

-----------------------------------------------------------------------------
(* The width of the running result *)

\* the number of fields a merge of file k adds to every row
Added(k) == Len(files[k].data[1]) - Len(files[k].fields)

RECURSIVE SumAdded(_)
\* the fields the merges of the files fs add to every row
SumAdded(fs) == IF fs = <<>> THEN 0 ELSE Added(Head(fs)) + SumAdded(Tail(fs))

\* C13: a merge step makes every row of the next result, matched or
\* unmatched, as wide as the row it derives from plus the new file's row
\* width minus its number of key fields; so all rows of the running result
\* have one width, which never decreases, and every written row has as many
\* fields as the written header.
C13_UniformWidth ==
    /\ [][MergeStep =>
            \A k \in DOMAIN Data' :
                /\ Len(Data'[k]) = Len(Data[from'[k]]) + Added(i)
                /\ Len(Data'[k]) >= Len(Data[from'[k]])]_vars
    /\ [](/\ seedFile # 0 =>
                \A k \in DOMAIN Data : Len(Data[k]) = Len(A.data[1]) + SumAdded(merged)
          /\ (pc = "done" /\ Len(outHeader) = 1) =>
                \A k \in DOMAIN outRows : Len(outRows[k]) = Len(outHeader[1]))

\* one merge of a file with three columns besides its key left a matched row
\* and an unmatched row, both five fields wide, under a header of five names
C13_Witness ==
    /\ pc = "done" /\ Len(merged) = 1 /\ Added(merged[1]) = 3
    /\ Len(outHeader) = 1 /\ Len(outHeader[1]) = 5
    /\ \E k, l \in DOMAIN outRows :
          /\ SubSeq(outRows[k], 3, 5) = Placeholders(3)
          /\ SubSeq(outRows[l], 3, 5) = Contributed(B.data[1], B.fields)
====
